---- MODULE Spec2Model ----
(***************************************************************************)
(* Trajectory conversion between tropter::Iterate and OpenSim::MucoIterate *)
(* (Muscollo/tropter/TropterProblem.cpp) and the model factories declared  *)
(* in Moco/Components/ModelFactory.h.                                      *)
(*                                                                         *)
(* Matrices are modelled with their storage: an Eigen::MatrixXd and a      *)
(* SimTK::Matrix are both dense column-major blocks, element (i, j) of an  *)
(* r x c matrix living at offset i + j*r of its data.                      *)
(***************************************************************************)
EXTENDS Integers, Sequences, FiniteSets, TLC

\* ------------------------------------------------------------------ bounds
MaxTimes == 2
MaxStates == 2
MaxControls == 1
MaxMult == 2
MaxDeriv == 2
MaxParams == 1
MaxLinks == 3
MaxCalls == 2

VARIABLES
    mode,            \* which conversion runs first: "fromTropter" | "fromMuco"
    mpSum,           \* TropterProblemBase::m_mpSum
    tropIn,          \* argument of convertIterateTropterToMuco
    mucoOut,         \* its return value (meaningful once t2m = "returned")
    mucoIn,          \* argument of convertToTropterIterate
    tropOut,         \* its return value (meaningful once m2t = "returned")
    t2m,             \* position inside convertIterateTropterToMuco
    m2t,             \* position of convertToTropterIterate
    multiplier_names,\* local of convertIterateTropterToMuco
    derivative_names,\* local of convertIterateTropterToMuco
    numDerivatives,  \* local of convertIterateTropterToMuco
    maxAdjRead,      \* highest adjunct index (name or row) read so far, -1: none
    model,           \* the OpenSim::Model under construction / modification
    built,           \* createNLinkPendulum has returned
    numLinks,        \* argument of createNLinkPendulum
    locked,          \* coordinates for which Coordinate::isConstrained() holds
    calls            \* createReserveActuators calls made so far: <<skip, added>>

convVars == <<mode, mpSum, tropIn, mucoOut, mucoIn, tropOut, t2m, m2t,
              multiplier_names, derivative_names, numDerivatives, maxAdjRead>>
factVars == <<model, built, numLinks, locked, calls>>
vars == <<mode, mpSum, tropIn, mucoOut, mucoIn, tropOut, t2m, m2t,
          multiplier_names, derivative_names, numDerivatives, maxAdjRead,
          model, built, numLinks, locked, calls>>

\* ---------------------------------------------------------------- matrices
\* Eigen::MatrixXd, default-constructed: 0 x 0.
EigenDefault == [rows |-> 0, cols |-> 0, data |-> <<>>]

\* SimTK::Matrix, default-constructed: 0 x 0.
SimTKDefault == [nrow |-> 0, ncol |-> 0, data |-> <<>>]

\* What a read outside a matrix's storage yields (Eigen checks indices only
\* through eigen_assert).
GarbageValue == -999

\* Eigen operator()(i, j) on column-major storage.
EigenAt(m, i, j) ==
    IF i + j * m.rows + 1 \in DOMAIN m.data
    THEN m.data[i + j * m.rows + 1] ELSE GarbageValue

\* The value standing for a coefficient that resize() allocated and nothing
\* has assigned yet.
Uninit == -1

\* Eigen resize(r, c) of a fresh matrix: r x c, coefficients unassigned.
EigenResize(r, c) ==
    [rows |-> r, cols |-> c, data |-> [k \in 1..(r * c) |-> Uninit]]

\* SimTK resize(r, c) followed by the double loop
\*     for itime, for ichan: dst(itime, ichan) = src(ichan + rowOffset, itime)
\* over an Eigen source: the columns of dst are rows of src.
FillFromTropter(src, rowOffset, numTimes, numChan) ==
    [nrow |-> numTimes, ncol |-> numChan,
     data |-> [k \in 1..(numTimes * numChan) |->
                 LET itime == (k - 1) % numTimes
                     ichan == (k - 1) \div numTimes
                 IN  EigenAt(src, ichan + rowOffset, itime)]]

\* Map<const MatrixXd>(&m(0, 0), numTimes, numChan).transpose(), assigned to
\* a MatrixXd: the map views the SimTK storage as a column-major
\* numTimes x numChan block, the result is numChan x numTimes.
MapTransposeRowMajor(m, numTimes, numChan) ==
    [rows |-> numChan, cols |-> numTimes,
     data |-> [k \in 1..(numChan * numTimes) |->
                 LET ichan == (k - 1) % numChan
                     itime == (k - 1) \div numChan
                 IN  m.data[ichan + itime * numChan + 1]]]

MapTranspose(m, numTimes, numChan) ==
    [rows |-> numChan, cols |-> numTimes,
     data |-> [k \in 1..(numChan * numTimes) |->
                 LET ichan == (k - 1) % numChan
                     itime == (k - 1) \div numChan
                 IN  m.data[itime + ichan * numTimes + 1]]]

\* dst.topRows(n) = src: rows 0..n-1 of dst taken from the n x cols block src.
TopRowsAssign(dst, n, src) ==
    [dst EXCEPT !.data =
        [k \in 1..(dst.rows * dst.cols) |->
            LET i == (k - 1) % dst.rows
                j == (k - 1) \div dst.rows
            IN  IF i < n THEN EigenAt(src, i, j) ELSE dst.data[k]]]

\* dst.bottomRows(n) = src: rows rows-n..rows-1 of dst taken from src.
BottomRowsAssign(dst, n, src) ==
    [dst EXCEPT !.data =
        [k \in 1..(dst.rows * dst.cols) |->
            LET i == (k - 1) % dst.rows
                j == (k - 1) \div dst.rows
            IN  IF i >= dst.rows - n
                THEN EigenAt(src, i - (dst.rows - n), j)
                ELSE dst.data[k]]]

\* A copy of the first n elements of a buffer (SimTK::Vector(n, data),
\* Map<const RowVectorXd>(&v[0], n), std::copy_n without overrun).
CopyN(buf, n) == [k \in 1..n |-> buf[k]]

\* ---------------------------------------------------------------- iterates
\* tropter::Iterate, default-constructed.
DefaultTropIterate ==
    [time |-> <<>>, state_names |-> <<>>, control_names |-> <<>>,
     adjunct_names |-> <<>>, parameter_names |-> <<>>,
     states |-> EigenDefault, controls |-> EigenDefault,
     adjuncts |-> EigenDefault, parameters |-> <<>>]

\* OpenSim::MucoIterate, default-constructed.
DefaultMucoIterate ==
    [time |-> <<>>, state_names |-> <<>>, control_names |-> <<>>,
     multiplier_names |-> <<>>, derivative_names |-> <<>>,
     parameter_names |-> <<>>,
     states |-> SimTKDefault, controls |-> SimTKDefault,
     multipliers |-> SimTKDefault, derivatives |-> SimTKDefault,
     parameters |-> <<>>]

\* MucoIterate::empty(): no time, no names, no matrix element.
empty(it) ==
    /\ Len(it.time) = 0
    /\ Len(it.state_names) = 0 /\ Len(it.control_names) = 0
    /\ Len(it.multiplier_names) = 0 /\ Len(it.derivative_names) = 0
    /\ Len(it.parameter_names) = 0
    /\ Len(it.states.data) = 0 /\ Len(it.controls.data) = 0
    /\ Len(it.multipliers.data) = 0 /\ Len(it.derivatives.data) = 0
    /\ Len(it.parameters) = 0

\* ------------------------------------------------------------------ inputs
\* Channel names: a prefix and the channel's index, no duplicates.
Names(prefix, n) == [i \in 1..n |-> prefix \o ToString(i - 1)]

\* The value of channel c (0-based) of a group at time index t (0-based):
\* every coefficient of an iterate is distinct, so a misplaced one shows.
Val(base, c, t) == base + 10 * c + t

\* A well-formed tropter matrix: numChan x numTimes.
TropMatrix(base, numChan, numTimes) ==
    [rows |-> numChan, cols |-> numTimes,
     data |-> [k \in 1..(numChan * numTimes) |->
                 Val(base, (k - 1) % numChan, (k - 1) \div numChan)]]

\* A well-formed Muco matrix: numTimes x numChan, or the empty matrix for a
\* group without channels.
MucoMatrix(base, numTimes, numChan) ==
    IF numChan = 0 THEN SimTKDefault
    ELSE [nrow |-> numTimes, ncol |-> numChan,
          data |-> [k \in 1..(numTimes * numChan) |->
                      Val(base, (k - 1) \div numTimes, (k - 1) % numTimes)]]

TropInput(nT, nS, nC, nA, nP) ==
    [time |-> [i \in 1..nT |-> 500 + i],
     state_names |-> Names("s", nS), control_names |-> Names("c", nC),
     adjunct_names |-> Names("a", nA), parameter_names |-> Names("p", nP),
     states |-> TropMatrix(100, nS, nT), controls |-> TropMatrix(200, nC, nT),
     adjuncts |-> TropMatrix(300, nA, nT),
     parameters |-> [i \in 1..nP |-> 900 + i]]

MucoInput(nT, nS, nC, nM, nD, nP) ==
    [time |-> [i \in 1..nT |-> 500 + i],
     state_names |-> Names("s", nS), control_names |-> Names("c", nC),
     multiplier_names |-> Names("lambda", nM),
     derivative_names |-> Names("d", nD),
     parameter_names |-> Names("p", nP),
     states |-> MucoMatrix(100, nT, nS), controls |-> MucoMatrix(200, nT, nC),
     multipliers |-> MucoMatrix(300, nT, nM),
     derivatives |-> MucoMatrix(400, nT, nD),
     parameters |-> [i \in 1..nP |-> 900 + i]]

\* ------------------------------------------------- convertToTropterIterate
\* tropIter.adjuncts: resize, then the multipliers into the top rows and the
\* derivatives into the bottom rows.
AdjunctsDerivativesFirst(mucoIter, numTimes, numMultipliers, numDerivatives_) ==
    LET sized == EigenResize(numMultipliers + numDerivatives_, numTimes)
        bot == IF numMultipliers # 0
               THEN BottomRowsAssign(sized, numMultipliers,
                        MapTranspose(mucoIter.multipliers, numTimes,
                                     numMultipliers))
               ELSE sized
    IN  IF numDerivatives_ # 0
        THEN TopRowsAssign(bot, numDerivatives_,
                 MapTranspose(mucoIter.derivatives, numTimes, numDerivatives_))
        ELSE bot

Adjuncts(mucoIter, numTimes, numMultipliers, numDerivatives_) ==
    LET sized == EigenResize(numMultipliers + numDerivatives_, numTimes)
        top == IF numMultipliers # 0
               THEN TopRowsAssign(sized, numMultipliers,
                        MapTranspose(mucoIter.multipliers, numTimes,
                                     numMultipliers))
               ELSE sized
    IN  IF numDerivatives_ # 0
        THEN BottomRowsAssign(top, numDerivatives_,
                 MapTranspose(mucoIter.derivatives, numTimes, numDerivatives_))
        ELSE top

\* tropIter.adjunct_names: the multiplier names, then insert(end(), ...) of
\* the derivative names.
AdjunctNames(mucoIter) ==
    mucoIter.multiplier_names \o mucoIter.derivative_names

\* A states or controls block: the transposed map, or resize(0, numTimes).
ChannelBlock(m, numTimes, numChan) ==
    IF numChan # 0 THEN MapTranspose(m, numTimes, numChan)
    ELSE EigenResize(numChan, numTimes)

\* The whole function.
ConvertToTropterIterate(mucoIter) ==
    IF empty(mucoIter) THEN DefaultTropIterate
    ELSE
      LET numTimes == Len(mucoIter.time)
          numStates == Len(mucoIter.state_names)
          numControls == Len(mucoIter.control_names)
          numMultipliers == Len(mucoIter.multiplier_names)
          numDerivs == Len(mucoIter.derivative_names)
          numParameters == Len(mucoIter.parameter_names)
      IN  [time |-> CopyN(mucoIter.time, numTimes),
           state_names |-> mucoIter.state_names,
           control_names |-> mucoIter.control_names,
           adjunct_names |-> AdjunctNames(mucoIter),
           parameter_names |-> mucoIter.parameter_names,
           states |-> ChannelBlock(mucoIter.states, numTimes, numStates),
           controls |-> ChannelBlock(mucoIter.controls, numTimes, numControls),
           adjuncts |-> Adjuncts(mucoIter, numTimes, numMultipliers, numDerivs),
           parameters |-> CopyN(mucoIter.parameters, numParameters)]

\* --------------------------------------------- convertIterateTropterToMuco
\* What std::copy_n yields for an element past the end of adjunct_names.
Garbage == "<out of bounds>"

Max(a, b) == IF a >= b THEN a ELSE b

\* multiplier_names(numMultipliers) filled by
\* copy_n(adjunct_names.begin(), numMultipliers, ...).
MultiplierNamesOf(adjunct_names, numMultipliers) ==
    [i \in 1..numMultipliers |->
        IF i <= Len(adjunct_names) THEN adjunct_names[i] ELSE Garbage]

\* numDerivatives = adjunct_names.size() - numMultipliers.
DerivativeCountClamped(numAdjuncts, numMultipliers) ==
    Max(0, numAdjuncts - numMultipliers)

DerivativeCount(numAdjuncts, numMultipliers) == numAdjuncts - numMultipliers

\* derivative_names(numDerivatives) filled by
\* copy_n(adjunct_names.begin() + numMultipliers, numDerivatives, ...).
DerivativeNamesFromStart(adjunct_names, numMultipliers, numDerivs) ==
    [i \in 1..numDerivs |-> adjunct_names[i]]

DerivativeNamesOf(adjunct_names, numMultipliers, numDerivs) ==
    [i \in 1..numDerivs |-> adjunct_names[i + numMultipliers]]

\* SimTK::Matrix m; if (numChan) { m.resize(numTimes, numChan); loops }.
ChannelMatrixUnshifted(src, rowOffset, numTimes, numChan) ==
    IF numChan # 0 THEN FillFromTropter(src, 0, numTimes, numChan)
    ELSE SimTKDefault

ChannelMatrixAlwaysSized(src, rowOffset, numTimes, numChan) ==
    IF numChan # 0 THEN FillFromTropter(src, rowOffset, numTimes, numChan)
    ELSE [nrow |-> numTimes, ncol |-> 0, data |-> <<>>]

ChannelMatrix(src, rowOffset, numTimes, numChan) ==
    IF numChan # 0 THEN FillFromTropter(src, rowOffset, numTimes, numChan)
    ELSE SimTKDefault

\* The tropter iterate the conversion runs on: the caller's, or the one
\* convertToTropterIterate has just returned.
T2MReady ==
    \/ mode = "fromTropter" /\ t2m = "names"
    \/ mode = "fromMuco" /\ m2t = "returned" /\ t2m = "idle"

\* Lines 26-35: the time and name references, multiplier_names and its copy.
\* With fewer adjunct names than m_mpSum the copy runs past the end of
\* adjunct_names: the process dies there or carries on with garbage.
CopyMultiplierNames ==
    /\ T2MReady
    /\ LET tropSol == IF mode = "fromTropter" THEN tropIn ELSE tropOut
           numMultipliers == mpSum
       IN  /\ tropIn' = tropSol
           /\ multiplier_names' =
                  MultiplierNamesOf(tropSol.adjunct_names, numMultipliers)
           /\ maxAdjRead' = Max(maxAdjRead, numMultipliers - 1)
           /\ IF numMultipliers > Len(tropSol.adjunct_names)
              THEN t2m' \in {"crashed", "check"}
              ELSE t2m' = "check"
    /\ UNCHANGED <<mode, mpSum, mucoOut, mucoIn, tropOut, m2t,
                   derivative_names, numDerivatives>>
    /\ UNCHANGED factVars

\* Lines 37-39: numDerivatives and assert(numDerivatives >= 0); the assert
\* is compiled out when NDEBUG is defined.
CheckDerivativeCount ==
    /\ t2m = "check"
    /\ numDerivatives' = DerivativeCount(Len(tropIn.adjunct_names), mpSum)
    /\ \E assertsEnabled \in BOOLEAN :
          t2m' = IF assertsEnabled /\ numDerivatives' < 0
                 THEN "aborted" ELSE "derivNames"
    /\ UNCHANGED <<mode, mpSum, tropIn, mucoOut, mucoIn, tropOut, m2t,
                   multiplier_names, derivative_names, maxAdjRead>>
    /\ UNCHANGED factVars

\* Lines 40-42: derivative_names(numDerivatives) and its copy. A negative
\* int converts to a size beyond max_size(): the constructor throws.
CopyDerivativeNames ==
    /\ t2m = "derivNames"
    /\ IF numDerivatives < 0
       THEN /\ t2m' = "threw"
            /\ UNCHANGED <<derivative_names, maxAdjRead>>
       ELSE /\ t2m' = "fill"
            /\ derivative_names' =
                   DerivativeNamesOf(tropIn.adjunct_names, mpSum,
                                     numDerivatives)
            /\ maxAdjRead' =
                   IF numDerivatives > 0
                   THEN Max(maxAdjRead, mpSum + numDerivatives - 1)
                   ELSE maxAdjRead
    /\ UNCHANGED <<mode, mpSum, tropIn, mucoOut, mucoIn, tropOut, m2t,
                   multiplier_names, numDerivatives>>
    /\ UNCHANGED factVars

\* Lines 44-102: the four matrices, the parameters and the returned iterate.
FillAndReturn ==
    /\ t2m = "fill"
    /\ LET numMultipliers == mpSum
           numTimes == Len(tropIn.time)
           numStates == Len(tropIn.state_names)
           numControls == Len(tropIn.control_names)
           numParameters == Len(tropIn.parameter_names)
           rowsRead == IF numTimes = 0 THEN -1
                       ELSE IF numDerivatives > 0
                            THEN numMultipliers + numDerivatives - 1
                            ELSE numMultipliers - 1
       IN  /\ mucoOut' =
                [time |-> CopyN(tropIn.time, numTimes),
                 state_names |-> tropIn.state_names,
                 control_names |-> tropIn.control_names,
                 multiplier_names |-> multiplier_names,
                 derivative_names |-> derivative_names,
                 parameter_names |-> tropIn.parameter_names,
                 states |-> ChannelMatrix(tropIn.states, 0, numTimes,
                                          numStates),
                 controls |-> ChannelMatrix(tropIn.controls, 0, numTimes,
                                            numControls),
                 multipliers |-> ChannelMatrix(tropIn.adjuncts, 0, numTimes,
                                               numMultipliers),
                 derivatives |-> ChannelMatrix(tropIn.adjuncts,
                                               numMultipliers, numTimes,
                                               numDerivatives),
                 parameters |-> CopyN(tropIn.parameters, numParameters)]
           /\ maxAdjRead' = Max(maxAdjRead, rowsRead)
    /\ t2m' = "returned"
    /\ UNCHANGED <<mode, mpSum, tropIn, mucoIn, tropOut, m2t,
                   multiplier_names, derivative_names, numDerivatives>>
    /\ UNCHANGED factVars

\* convertToTropterIterate, on the caller's MucoIterate or on the one
\* convertToMucoIterate has just returned.
ToTropterIterate ==
    /\ \/ mode = "fromMuco" /\ m2t = "ready"
       \/ mode = "fromTropter" /\ t2m = "returned" /\ m2t = "idle"
    /\ LET mucoIter == IF mode = "fromMuco" THEN mucoIn ELSE mucoOut
       IN  /\ mucoIn' = mucoIter
           /\ tropOut' = ConvertToTropterIterate(mucoIter)
    /\ m2t' = "returned"
    /\ UNCHANGED <<mode, mpSum, tropIn, mucoOut, t2m, multiplier_names,
                   derivative_names, numDerivatives, maxAdjRead>>
    /\ UNCHANGED factVars

\* ------------------------------------------------------------ ModelFactory
\* A Model: its bodies, joints, markers, offset frames, the
\* CoordinateActuators added as components and those of its ForceSet.
EmptyModel ==
    [bodies |-> <<>>, joints |-> <<>>, components |-> <<>>,
     markers |-> <<>>, frames |-> <<>>, forceSet |-> <<>>]

Ground == "ground"

IndexedName(prefix, i) == prefix \o ToString(i)

\* The link added by iteration i of createNLinkPendulum's loop.
LinkJoint(i) ==
    [name |-> IndexedName("j", i), coord |-> IndexedName("q", i),
     parent |-> IF i = 0 THEN Ground ELSE IndexedName("b", i - 1),
     child |-> IndexedName("b", i)]

\* One iteration of the loop of createNLinkPendulum.
AddLinkOneBased(m, i) ==
    [m EXCEPT
        !.bodies = Append(@, IndexedName("b", i + 1)),
        !.joints = Append(@, LinkJoint(i)),
        !.components = Append(@, [name |-> IndexedName("tau", i + 1),
                                  coord |-> IndexedName("q", i)]),
        !.markers = Append(@, [name |-> IndexedName("marker", i + 1),
                               body |-> IndexedName("b", i + 1)]),
        !.frames = Append(@, [name |-> IndexedName("b", i + 1) \o "center",
                              body |-> IndexedName("b", i + 1)])]

AddLinkTo(m, i) ==
    [m EXCEPT
        !.bodies = Append(@, IndexedName("b", i)),
        !.joints = Append(@, LinkJoint(i)),
        !.components = Append(@, [name |-> IndexedName("tau", i),
                                  coord |-> IndexedName("q", i)]),
        !.markers = Append(@, [name |-> IndexedName("marker", i),
                               body |-> IndexedName("b", i)]),
        !.frames = Append(@, [name |-> IndexedName("b", i) \o "center",
                              body |-> IndexedName("b", i)])]

\* A coordinate's absolute path, one token per path element and separator.
CoordinatePath(joint) == <<"/", "jointset", "/", joint.name, "/", joint.coord>>

\* "reserve_" + path with every forward slash replaced by an underscore.
ReserveName(path) ==
    <<"reserve_">> \o [k \in DOMAIN path |->
                          IF path[k] = "/" THEN "_" ELSE path[k]]

\* The coordinates some CoordinateActuator of the model drives.
Actuated(m) ==
    {m.components[k].coord : k \in DOMAIN m.components}
        \cup {m.forceSet[k].coord : k \in DOMAIN m.forceSet}

\* Whether createReserveActuators adds an actuator for a joint's coordinate.
GetsReserveIgnoringSkip(m, joint, skip) == joint.coord \notin locked

GetsReserve(m, joint, skip) ==
    /\ joint.coord \notin locked
    /\ ~(skip /\ joint.coord \in Actuated(m))

\* The actuators createReserveActuators adds to m, in joint order.
RECURSIVE ReserveActuators(_, _, _)
ReserveActuators(m, skip, k) ==
    IF k > Len(m.joints) THEN <<>>
    ELSE (IF GetsReserve(m, m.joints[k], skip)
          THEN <<[name |-> ReserveName(CoordinatePath(m.joints[k])),
                  coord |-> m.joints[k].coord]>>
          ELSE <<>>) \o ReserveActuators(m, skip, k + 1)

\* One iteration of createNLinkPendulum(numLinks).
AddLink ==
    /\ built = "no"
    /\ Len(model.bodies) < numLinks
    /\ model' = AddLinkTo(model, Len(model.bodies))
    /\ UNCHANGED <<built, numLinks, locked, calls>>
    /\ UNCHANGED convVars

\* createNLinkPendulum returns the model.
ReturnPendulum ==
    /\ built = "no"
    /\ Len(model.bodies) = numLinks
    /\ built' = "pendulum"
    /\ UNCHANGED <<model, numLinks, locked, calls>>
    /\ UNCHANGED convVars

\* createReserveActuators(model, optimalForce, skip).
CreateReserveActuators ==
    /\ built # "no"
    /\ Len(calls) < MaxCalls
    /\ \E skip \in BOOLEAN :
          LET added == ReserveActuators(model, skip, 1)
          IN  /\ model' = [model EXCEPT !.forceSet = @ \o added]
              /\ calls' = Append(calls,
                      [skip |-> skip, before |-> model, added |-> added])
    /\ UNCHANGED <<built, numLinks, locked>>
    /\ UNCHANGED convVars

\* A model that did not come from createNLinkPendulum: n pin joints, of
\* which those in withTau have a CoordinateActuator.
RECURSIVE GivenComponents(_, _, _)
GivenComponents(n, withTau, i) ==
    IF i >= n THEN <<>>
    ELSE (IF i \in withTau
          THEN <<[name |-> IndexedName("tau", i),
                  coord |-> IndexedName("q", i)]>>
          ELSE <<>>) \o GivenComponents(n, withTau, i + 1)

GivenModel(n, withTau) ==
    [bodies |-> [i \in 1..n |-> IndexedName("b", i - 1)],
     joints |-> [i \in 1..n |-> LinkJoint(i - 1)],
     components |-> GivenComponents(n, withTau, 0),
     markers |-> <<>>, frames |-> <<>>, forceSet |-> <<>>]

\* ------------------------------------------------------- specifications
ConvIdle ==
    /\ mode = "none" /\ mpSum = 0
    /\ tropIn = DefaultTropIterate /\ tropOut = DefaultTropIterate
    /\ mucoIn = DefaultMucoIterate /\ mucoOut = DefaultMucoIterate
    /\ t2m = "idle" /\ m2t = "idle"
    /\ multiplier_names = <<>> /\ derivative_names = <<>>
    /\ numDerivatives = 0 /\ maxAdjRead = -1

FactoryIdle ==
    /\ model = EmptyModel /\ built = "idle" /\ numLinks = 0
    /\ locked = {} /\ calls = <<>>

InitFromTropter ==
    /\ mode = "fromTropter"
    /\ \E nT \in 0..MaxTimes, nS \in 0..MaxStates, nC \in 0..MaxControls,
          nA \in 0..(MaxMult + MaxDeriv), nP \in 0..MaxParams :
          tropIn = TropInput(nT, nS, nC, nA, nP)
    /\ mucoIn = DefaultMucoIterate
    /\ t2m = "names" /\ m2t = "idle"

InitFromMuco ==
    /\ mode = "fromMuco"
    /\ \E nT \in 0..MaxTimes, nS \in 0..MaxStates, nC \in 0..MaxControls,
          nM \in 0..MaxMult, nD \in 0..MaxDeriv, nP \in 0..MaxParams :
          mucoIn = MucoInput(nT, nS, nC, nM, nD, nP)
    /\ tropIn = DefaultTropIterate
    /\ t2m = "idle" /\ m2t = "ready"

Init ==
    /\ InitFromTropter \/ InitFromMuco
    /\ mpSum \in 0..MaxMult
    /\ tropOut = DefaultTropIterate /\ mucoOut = DefaultMucoIterate
    /\ multiplier_names = <<>> /\ derivative_names = <<>>
    /\ numDerivatives = 0 /\ maxAdjRead = -1
    /\ FactoryIdle

Next ==
    \/ CopyMultiplierNames
    \/ CheckDerivativeCount
    \/ CopyDerivativeNames
    \/ FillAndReturn
    \/ ToTropterIterate

Spec == Init /\ [][Next]_vars

FactoryInit ==
    /\ ConvIdle
    /\ calls = <<>>
    /\ \E n \in 0..MaxLinks :
          /\ numLinks = n
          /\ locked \in SUBSET {IndexedName("q", i) : i \in 0..(n - 1)}
          /\ \/ model = EmptyModel /\ built = "no"
             \/ /\ built = "given"
                /\ \E withTau \in SUBSET (0..(n - 1)) :
                      model = GivenModel(n, withTau)

FactoryNext ==
    \/ AddLink
    \/ ReturnPendulum
    \/ CreateReserveActuators

FactorySpec == FactoryInit /\ [][FactoryNext]_vars

\* ------------------------------------------------------------------ claims
T2MReturned == t2m = "returned"
M2TConverted == m2t = "returned" /\ ~empty(mucoIn)
T2MStopped == t2m \in {"crashed", "aborted", "threw"}

\* C1: convertToTropterIterate of a non-empty MucoIterate with M multiplier
\* and D derivative names yields adjunct_names = multiplier names followed by
\* derivative names, and an (M + D) x numTimes adjunct block whose rows
\* 0..M-1 are the multiplier channels and rows M..M+D-1 the derivative
\* channels.
C1_AdjunctsMultipliersFirst ==
    M2TConverted =>
        LET M == Len(mucoIn.multiplier_names)
            D == Len(mucoIn.derivative_names)
            nT == Len(mucoIn.time)
            adj == tropOut.adjuncts
        IN  /\ Len(tropOut.adjunct_names) = M + D
            /\ \A k \in 1..M :
                  tropOut.adjunct_names[k] = mucoIn.multiplier_names[k]
            /\ \A k \in 1..D :
                  tropOut.adjunct_names[M + k] = mucoIn.derivative_names[k]
            /\ adj.rows = M + D /\ adj.cols = nT
            /\ Len(adj.data) = (M + D) * nT
            /\ \A t \in 0..(nT - 1) :
                  /\ \A i \in 0..(M - 1) :
                        adj.data[i + t * (M + D) + 1]
                            = mucoIn.multipliers.data[t + i * nT + 1]
                  /\ \A j \in 0..(D - 1) :
                        adj.data[(M + j) + t * (M + D) + 1]
                            = mucoIn.derivatives.data[t + j * nT + 1]

C1_Witness ==
    /\ mode = "fromMuco" /\ m2t = "returned"
    /\ Len(mucoIn.multiplier_names) = 2 /\ Len(mucoIn.derivative_names) = 2
    /\ Len(mucoIn.time) = 2
    /\ tropOut.adjunct_names = <<"lambda0", "lambda1", "d0", "d1">>
    /\ tropOut.adjuncts.data = <<300, 310, 400, 410, 301, 311, 401, 411>>

\* The shape an empty channel group has in a tropter iterate.
EmptyTropShape(m, nT) == m.rows = 0 /\ m.cols = nT /\ Len(m.data) = 0

\* C2 as stated: in both directions a group without names and with
\* numTimes > 0 becomes a matrix of extent 0 along the channel dimension and
\* numTimes along the time dimension.
C2_Original ==
    /\ (T2MReturned /\ Len(tropIn.time) > 0) =>
          LET nT == Len(tropIn.time)
              sized(m) == m.nrow = nT /\ m.ncol = 0
          IN  /\ Len(mucoOut.state_names) = 0 => sized(mucoOut.states)
              /\ Len(mucoOut.control_names) = 0 => sized(mucoOut.controls)
              /\ Len(mucoOut.multiplier_names) = 0
                    => sized(mucoOut.multipliers)
              /\ Len(mucoOut.derivative_names) = 0
                    => sized(mucoOut.derivatives)
    /\ (M2TConverted /\ Len(mucoIn.time) > 0) =>
          LET nT == Len(mucoIn.time)
          IN  /\ Len(mucoIn.state_names) = 0
                    => EmptyTropShape(tropOut.states, nT)
              /\ Len(mucoIn.control_names) = 0
                    => EmptyTropShape(tropOut.controls, nT)
              /\ Len(mucoIn.multiplier_names) + Len(mucoIn.derivative_names)
                    = 0 => EmptyTropShape(tropOut.adjuncts, nT)

\* C2 (amended): convertToTropterIterate turns a group without names into a
\* 0 x numTimes matrix; convertIterateTropterToMuco turns it into the
\* default 0 x 0 matrix, with no extent along the time dimension either;
\* neither yields a single-row or single-column matrix.
C2_EmptyGroups ==
    /\ (T2MReturned /\ Len(tropIn.time) > 0) =>
          LET none(m) == m.nrow = 0 /\ m.ncol = 0 /\ Len(m.data) = 0
          IN  /\ Len(mucoOut.state_names) = 0 => none(mucoOut.states)
              /\ Len(mucoOut.control_names) = 0 => none(mucoOut.controls)
              /\ Len(mucoOut.multiplier_names) = 0
                    => none(mucoOut.multipliers)
              /\ Len(mucoOut.derivative_names) = 0
                    => none(mucoOut.derivatives)
    /\ (M2TConverted /\ Len(mucoIn.time) > 0) =>
          LET nT == Len(mucoIn.time)
          IN  /\ Len(mucoIn.state_names) = 0
                    => EmptyTropShape(tropOut.states, nT)
              /\ Len(mucoIn.control_names) = 0
                    => EmptyTropShape(tropOut.controls, nT)
              /\ Len(mucoIn.multiplier_names) + Len(mucoIn.derivative_names)
                    = 0 => EmptyTropShape(tropOut.adjuncts, nT)

C2_Witness ==
    /\ mode = "fromTropter" /\ t2m = "returned" /\ m2t = "returned"
    /\ Len(tropIn.time) = 2
    /\ Len(tropIn.control_names) = 0 /\ Len(tropIn.adjunct_names) = 0
    /\ mucoOut.controls = SimTKDefault /\ mucoOut.derivatives = SimTKDefault
    /\ tropOut.controls.rows = 0 /\ tropOut.controls.cols = 2
    /\ tropOut.adjuncts.rows = 0 /\ tropOut.adjuncts.cols = 2

\* A Muco matrix is the transpose of a tropter matrix, coefficient by
\* coefficient, both read from their storage.
IsTransposeOf(mucoM, tropM, nT, nChan) ==
    /\ mucoM.nrow = nT /\ mucoM.ncol = nChan
    /\ tropM.rows = nChan /\ tropM.cols = nT
    /\ Len(mucoM.data) = nT * nChan /\ Len(tropM.data) = nT * nChan
    /\ \A t \in 0..(nT - 1), c \in 0..(nChan - 1) :
          mucoM.data[t + c * nT + 1] = tropM.data[c + t * nChan + 1]

SameSeq(a, b) == Len(a) = Len(b) /\ \A k \in 1..Len(a) : a[k] = b[k]

\* C3: both conversions transpose every non-empty states and controls matrix
\* without changing a value (Muco numTimes x numChannels, tropter
\* numChannels x numTimes) and copy time, the state, control and parameter
\* name lists and the parameter values in the same order.
C3_Transpose ==
    /\ T2MReturned =>
          LET nT == Len(tropIn.time)
              nS == Len(tropIn.state_names)
              nC == Len(tropIn.control_names)
          IN  /\ nS > 0 => IsTransposeOf(mucoOut.states, tropIn.states, nT, nS)
              /\ nC > 0 =>
                    IsTransposeOf(mucoOut.controls, tropIn.controls, nT, nC)
              /\ SameSeq(mucoOut.time, tropIn.time)
              /\ SameSeq(mucoOut.state_names, tropIn.state_names)
              /\ SameSeq(mucoOut.control_names, tropIn.control_names)
              /\ SameSeq(mucoOut.parameter_names, tropIn.parameter_names)
              /\ SameSeq(mucoOut.parameters, tropIn.parameters)
    /\ M2TConverted =>
          LET nT == Len(mucoIn.time)
              nS == Len(mucoIn.state_names)
              nC == Len(mucoIn.control_names)
          IN  /\ nS > 0 => IsTransposeOf(mucoIn.states, tropOut.states, nT, nS)
              /\ nC > 0 =>
                    IsTransposeOf(mucoIn.controls, tropOut.controls, nT, nC)
              /\ SameSeq(tropOut.time, mucoIn.time)
              /\ SameSeq(tropOut.state_names, mucoIn.state_names)
              /\ SameSeq(tropOut.control_names, mucoIn.control_names)
              /\ SameSeq(tropOut.parameter_names, mucoIn.parameter_names)
              /\ SameSeq(tropOut.parameters, mucoIn.parameters)

C3_Witness ==
    /\ mode = "fromMuco" /\ m2t = "returned" /\ t2m = "returned"
    /\ mucoIn.states.data = <<100, 101, 110, 111>>
    /\ tropOut.states.data = <<100, 110, 101, 111>>
    /\ mucoOut.states.data = <<100, 101, 110, 111>>
    /\ Len(mucoIn.control_names) = 1 /\ Len(mucoIn.parameters) = 1

\* C4: convertIterateTropterToMuco splits the adjunct block by count: with
\* M = m_mpSum and A >= M adjunct names, the multiplier names are adjunct
\* names 0..M-1, the derivative names are adjunct names M..A-1,
\* multipliers(t, i) = adjuncts(i, t) and
\* derivatives(t, j) = adjuncts(j + M, t).
C4_SplitByCount ==
    T2MReturned =>
        LET M == mpSum
            A == Len(tropIn.adjunct_names)
            nT == Len(tropIn.time)
        IN  /\ A >= M
            /\ Len(mucoOut.multiplier_names) = M
            /\ Len(mucoOut.derivative_names) = A - M
            /\ \A k \in 1..A :
                  tropIn.adjunct_names[k] =
                      IF k <= M THEN mucoOut.multiplier_names[k]
                      ELSE mucoOut.derivative_names[k - M]
            /\ M > 0 =>
                  /\ mucoOut.multipliers.nrow = nT
                  /\ mucoOut.multipliers.ncol = M
                  /\ \A t \in 0..(nT - 1), i \in 0..(M - 1) :
                        mucoOut.multipliers.data[t + i * nT + 1]
                            = tropIn.adjuncts.data[i + t * A + 1]
            /\ A - M > 0 =>
                  /\ mucoOut.derivatives.nrow = nT
                  /\ mucoOut.derivatives.ncol = A - M
                  /\ \A t \in 0..(nT - 1), j \in 0..(A - M - 1) :
                        mucoOut.derivatives.data[t + j * nT + 1]
                            = tropIn.adjuncts.data[(j + M) + t * A + 1]

C4_Witness ==
    /\ mode = "fromTropter" /\ t2m = "returned"
    /\ mpSum = 1 /\ Len(tropIn.time) = 2
    /\ tropIn.adjunct_names = <<"a0", "a1", "a2">>
    /\ mucoOut.multiplier_names = <<"a0">>
    /\ mucoOut.derivative_names = <<"a1", "a2">>
    /\ mucoOut.multipliers.data = <<300, 301>>
    /\ mucoOut.derivatives.data = <<310, 311, 320, 321>>

\* C5: the conversion returns a trajectory only with at least m_mpSum
\* adjunct names; with fewer it stops at the assertion of a non-negative
\* derivative count and nowhere else.
C5_OnlyAssertionStops ==
    /\ t2m \in {"derivNames", "fill", "returned"}
          => Len(tropIn.adjunct_names) >= mpSum
    /\ T2MStopped =>
          /\ t2m = "aborted"
          /\ Len(tropIn.adjunct_names) < mpSum

\* C8: for a tropter iterate x with at least one time sample and at least
\* m_mpSum adjunct names, convertToMucoIterate returns and
\* convertToTropterIterate of its result equals x in every field.
C8_RoundTrip ==
    (mode = "fromTropter" /\ Len(tropIn.time) >= 1
        /\ Len(tropIn.adjunct_names) >= mpSum) =>
            /\ ~T2MStopped
            /\ m2t = "returned" => tropOut = tropIn

C8_Witness ==
    /\ mode = "fromTropter" /\ m2t = "returned"
    /\ Len(tropIn.time) = 2 /\ Len(tropIn.state_names) = 0
    /\ Len(tropIn.control_names) = 1
    /\ Len(tropIn.adjunct_names) = 3 /\ mpSum = 2
    /\ tropOut = tropIn

\* C9: convertIterateTropterToMuco never reads an adjunct name or adjunct
\* row at an index that is not below the number of adjunct names.
C9_NoReadPastAdjuncts ==
    t2m \notin {"idle", "names"} => maxAdjRead < Len(tropIn.adjunct_names)

\* C10 as stated: the empty MucoIterate converts to the default tropter
\* iterate, and converting that back yields an empty MucoIterate whatever
\* m_mpSum is.
C10_Original ==
    (mode = "fromMuco" /\ empty(mucoIn) /\ m2t = "returned") =>
        /\ tropOut = DefaultTropIterate
        /\ ~T2MStopped
        /\ T2MReturned => empty(mucoOut)

\* C10 (amended): the empty MucoIterate converts to the default tropter
\* iterate; converting that back returns an empty MucoIterate when
\* m_mpSum = 0 and returns no MucoIterate when m_mpSum > 0.
C10_EmptyIterate ==
    (mode = "fromMuco" /\ empty(mucoIn) /\ m2t = "returned") =>
        /\ tropOut = DefaultTropIterate
        /\ mpSum = 0 => (~T2MStopped /\ (T2MReturned => empty(mucoOut)))
        /\ mpSum > 0 => t2m \notin {"fill", "returned"}

C10_Witness ==
    /\ mode = "fromMuco" /\ empty(mucoIn) /\ m2t = "returned"
    /\ tropOut = DefaultTropIterate
    /\ mpSum = 0 /\ t2m = "returned" /\ empty(mucoOut)

\* The names of a sequence of named records.
NamesOf(seq) == [k \in DOMAIN seq |-> seq[k].name]

\* C6: createNLinkPendulum(numLinks) builds, for every link index i in
\* 0..numLinks-1 and no other, exactly one body b<i>, PinJoint j<i> with
\* coordinate q<i>, CoordinateActuator tau<i>, Marker marker<i> and offset
\* frame b<i>center; every joint refers only to bodies that were in the
\* model when it was added; the model is a function of numLinks alone.
C6_Pendulum ==
    /\ built \in {"no", "pendulum"} =>
          /\ Len(model.bodies) <= numLinks
          /\ \A k \in DOMAIN model.joints :
                LET before == {Ground} \cup {model.bodies[b] : b \in 1..k}
                IN  /\ model.joints[k].parent \in before
                    /\ model.joints[k].child \in before
    /\ built = "pendulum" =>
          /\ model.bodies = [i \in 1..numLinks |-> "b" \o ToString(i - 1)]
          /\ NamesOf(model.joints)
                = [i \in 1..numLinks |-> "j" \o ToString(i - 1)]
          /\ [k \in DOMAIN model.joints |-> model.joints[k].coord]
                = [i \in 1..numLinks |-> "q" \o ToString(i - 1)]
          /\ model.components
                = [i \in 1..numLinks |->
                     [name |-> "tau" \o ToString(i - 1),
                      coord |-> "q" \o ToString(i - 1)]]
          /\ model.markers
                = [i \in 1..numLinks |->
                     [name |-> "marker" \o ToString(i - 1),
                      body |-> "b" \o ToString(i - 1)]]
          /\ model.frames
                = [i \in 1..numLinks |->
                     [name |-> "b" \o ToString(i - 1) \o "center",
                      body |-> "b" \o ToString(i - 1)]]
          /\ \A k \in 1..numLinks :
                /\ model.joints[k].child = model.bodies[k]
                /\ model.joints[k].parent
                      = IF k = 1 THEN Ground ELSE model.bodies[k - 1]

C6_Witness ==
    /\ built = "pendulum" /\ numLinks = 2 /\ calls = <<>>
    /\ model.bodies = <<"b0", "b1">>
    /\ NamesOf(model.joints) = <<"j0", "j1">>
    /\ NamesOf(model.components) = <<"tau0", "tau1">>
    /\ NamesOf(model.markers) = <<"marker0", "marker1">>
    /\ NamesOf(model.frames) = <<"b0center", "b1center">>

\* The coordinates of a model that are not constrained.
Unconstrained(m) ==
    {m.joints[k].coord : k \in DOMAIN m.joints} \ locked

\* C7: every createReserveActuators call appends to the ForceSet one
\* actuator named reserve_<coordinate path with "/" replaced by "_"> for
\* each unconstrained coordinate and none for a constrained one; with skip
\* it leaves out the coordinates that already have a CoordinateActuator, so
\* a call with skip after an earlier call adds none; without skip every
\* unconstrained coordinate gets a new actuator on every call.
C7_ReserveActuators ==
    \A k \in DOMAIN calls :
        LET c == calls[k]
            after == IF k < Len(calls) THEN calls[k + 1].before ELSE model
            had == {c.before.components[i].coord :
                        i \in DOMAIN c.before.components}
                   \cup {c.before.forceSet[i].coord :
                             i \in DOMAIN c.before.forceSet}
            expected == IF c.skip THEN Unconstrained(c.before) \ had
                        ELSE Unconstrained(c.before)
        IN  /\ after.forceSet = c.before.forceSet \o c.added
            /\ after.joints = c.before.joints
            /\ after.components = c.before.components
            /\ {c.added[i].coord : i \in DOMAIN c.added} = expected
            /\ Len(c.added) = Cardinality(expected)
            /\ \A i \in DOMAIN c.added :
                  \E j \in DOMAIN c.before.joints :
                      /\ c.before.joints[j].coord = c.added[i].coord
                      /\ c.added[i].name =
                            <<"reserve_", "_", "jointset", "_",
                              c.before.joints[j].name, "_",
                              c.before.joints[j].coord>>
            /\ (c.skip /\ k > 1) => c.added = <<>>
            /\ ~c.skip => Len(c.added) = Cardinality(Unconstrained(c.before))

C7_Witness ==
    /\ built = "given" /\ Len(calls) = 2 /\ locked = {"q2"}
    /\ calls[1].skip /\ calls[2].skip
    /\ NamesOf(calls[1].before.components) = <<"tau0">>
    /\ NamesOf(calls[1].added)
          = << <<"reserve_", "_", "jointset", "_", "j1", "_", "q1">> >>
    /\ calls[2].added = <<>>
    /\ Len(model.forceSet) = 1 /\ Len(model.joints) = 3

====
